---- MODULE Spec2Model ----
(***************************************************************************)
(* Ludo Royal: the rules engine and the turn / scheduling state machine of *)
(* src/app.py, for one room.                                               *)
(*                                                                         *)
(* Granularity.  flask-socketio runs in async_mode='threading': every      *)
(* socket handler and every CPU timer runs in its own thread.  A thread    *)
(* gives up control at time.sleep; the model takes the code between two    *)
(* sleeps of a thread as one atomic step and lets the sleeps last          *)
(* arbitrarily long, so every order of the sleep-delimited steps of the    *)
(* handlers and CPU threads is a behaviour of the model.                   *)
(***************************************************************************)
EXTENDS Integers, Sequences, FiniteSets, Bags, TLC

VARIABLES game,      \* rooms[room_id]: the session dict of create_room
          players,   \* the sid registry: seats that have a connected sid
          threads,   \* sleeping threads: CPU timers and waiting handlers
          events,    \* the events of the last broadcast(room_id, events)
          rolls,     \* number of dice rolled so far (bounded by MaxRolls)
          drops      \* number of disconnects so far (bounded by MaxDrops)

vars == <<game, players, threads, events, rolls, drops>>

---------------------------------------------------------------------------
(* Bounds of the model                                                     *)
MaxRolls == 3
MaxDrops == 1

---------------------------------------------------------------------------
(* CONSTANTS of app.py                                                     *)
COLORS == <<"red", "blue", "green", "yellow">>
START_IDX == [red |-> 0, blue |-> 13, yellow |-> 26, green |-> 39]
ENTRY_BEFORE_HOME == [red |-> 51, blue |-> 11, green |-> 37, yellow |-> 24]
SAFE_SQUARES == {0, 8, 13, 21, 26, 34, 39, 47}

TrackLen == 52
NumSeats == 4
Seats == 0 .. (NumSeats - 1)
TokenIds == 0 .. 3
Dice == 1 .. 6

\* Python's None: for a color or sid, and for a token id
None == "None"
NoToken == -1

SeatOf(color) == CHOOSE i \in Seats : COLORS[i + 1] = color

---------------------------------------------------------------------------
(* TOKEN STATE                                                             *)
make_token(idx) == [id |-> idx, pos |-> -1, stretch |-> -1, finished |-> FALSE]

make_player(color, cpu) ==
  [color |-> color, is_cpu |-> cpu,
   tokens |-> [i \in TokenIds |-> make_token(i)],
   finished_count |-> 0, sid |-> None, last_moved_token |-> NoToken]

\* can_move that lets a token in the home stretch overshoot
can_move_overshoot(token, dice, color) ==
  IF token.finished THEN FALSE
  ELSE IF token.pos = -1 THEN dice = 6
  ELSE TRUE

\* RULE 3 & 9: can this token move with this dice?
can_move(token, dice, color) ==
  IF token.finished THEN FALSE
  ELSE IF token.pos = -1 THEN dice = 6
  ELSE IF token.stretch >= 0 THEN token.stretch + dice <= 5
  ELSE LET entry == ENTRY_BEFORE_HOME[color]
           steps_to_entry == (entry - token.pos) % TrackLen
       IN IF dice <= steps_to_entry THEN TRUE
          ELSE dice - steps_to_entry - 1 <= 5

\* the tokens of seat i that stand on track cell pos (the count of
\* is_blocked and check_capture)
TokensAt(g, i, pos) ==
  {t \in TokenIds : /\ g.players[i].tokens[t].pos = pos
                    /\ g.players[i].tokens[t].stretch < 0
                    /\ ~g.players[i].tokens[t].finished}

\* is_blocked that takes three tokens for a block
is_blocked_by_three(g, attacker_idx, new_pos) ==
  IF new_pos < 0 THEN FALSE
  ELSE \E i \in Seats \ {attacker_idx} : Cardinality(TokensAt(g, i, new_pos)) >= 3

\* RULE 6: blocking
is_blocked(g, attacker_idx, new_pos) ==
  IF new_pos < 0 THEN FALSE
  ELSE \E i \in Seats \ {attacker_idx} : Cardinality(TokensAt(g, i, new_pos)) >= 2

Min(S) == CHOOSE x \in S : \A y \in S : x <= y

\* check_capture that captures nothing
CaptureAt_nothing(g, attacker_idx, pos) == [game |-> g, cap |-> None]

\* the loop of check_capture: the first seat, in seat order, with exactly one
\* token on pos loses it
CaptureAt(g, attacker_idx, pos) ==
  LET single == {i \in Seats \ {attacker_idx} : Cardinality(TokensAt(g, i, pos)) = 1}
  IN IF single = {} THEN [game |-> g, cap |-> None]
     ELSE LET i == Min(single)
              t == CHOOSE x \in TokensAt(g, i, pos) : TRUE
          IN [game |-> [g EXCEPT !.players[i].tokens[t].pos = -1,
                                 !.players[i].tokens[t].stretch = -1],
              cap |-> g.players[i].color]

\* check_capture that forgets the safe squares
check_capture_everywhere(g, attacker_idx, token) ==
  IF token.pos < 0 \/ token.stretch >= 0 THEN [game |-> g, cap |-> None]
  ELSE CaptureAt(g, attacker_idx, token.pos)

\* RULE 5: capture.  Returns the game after the capture and the victim color
check_capture(g, attacker_idx, token) ==
  LET pos == token.pos
  IN IF pos < 0 \/ token.stretch >= 0 THEN [game |-> g, cap |-> None]
     ELSE IF pos \in SAFE_SQUARES THEN [game |-> g, cap |-> None]
     ELSE CaptureAt(g, attacker_idx, pos)

Ev(type, color, victim) == [type |-> type, color |-> color, victim |-> victim]

\* Finish that forgets to count the token
Finish_uncounted(g, player_idx, token_idx) ==
  [game |-> [g EXCEPT !.players[player_idx].tokens[token_idx].finished = TRUE],
   events |-> <<Ev("home", g.players[player_idx].color, None)>>]

\* the finish bookkeeping shared by case 2 and case 3 of apply_move
Finish(g, player_idx, token_idx) ==
  LET g1 == [g EXCEPT !.players[player_idx].tokens[token_idx].finished = TRUE,
                      !.players[player_idx].finished_count = @ + 1]
      color == g.players[player_idx].color
  IN [game |-> g1,
      events |-> IF g1.players[player_idx].finished_count = 4
                 THEN <<Ev("home", color, None), Ev("win", color, None)>>
                 ELSE <<Ev("home", color, None)>>]

\* Land that does not look for a block
Land_unblocked(g, player_idx, token_idx, new_pos) ==
  LET color == g.players[player_idx].color
      g1 == [g EXCEPT !.players[player_idx].tokens[token_idx].pos = new_pos,
                      !.players[player_idx].tokens[token_idx].stretch = -1]
      c  == check_capture(g1, player_idx, g1.players[player_idx].tokens[token_idx])
  IN [game |-> c.game,
      events |-> IF c.cap # None THEN <<Ev("capture", color, c.cap)>> ELSE <<>>]

\* the landing on a track cell shared by case 1 and case 3 of apply_move
Land(g, player_idx, token_idx, new_pos) ==
  LET color == g.players[player_idx].color
  IN IF is_blocked(g, player_idx, new_pos)
     THEN [game |-> g, events |-> <<Ev("blocked", color, None)>>]
     ELSE LET g1 == [g EXCEPT !.players[player_idx].tokens[token_idx].pos = new_pos,
                              !.players[player_idx].tokens[token_idx].stretch = -1]
              c  == check_capture(g1, player_idx, g1.players[player_idx].tokens[token_idx])
          IN [game |-> c.game,
              events |-> IF c.cap # None THEN <<Ev("capture", color, c.cap)>> ELSE <<>>]

\* where apply_move records the moved token (for the triple-six penalty)
RecordLastMoved(g, player_idx, token_idx) ==
  [g EXCEPT !.players[player_idx].last_moved_token = token_idx]

\* apply_move that keeps a token on the track past its lane entry
apply_move_no_lane(g, player_idx, token_idx) ==
  LET g0    == RecordLastMoved(g, player_idx, token_idx)
      token == g0.players[player_idx].tokens[token_idx]
      color == g0.players[player_idx].color
      dice  == g0.dice_value
  IN IF token.pos = -1
       THEN Land(g0, player_idx, token_idx, START_IDX[color])
     ELSE IF token.stretch >= 0
       THEN [game |-> g0, events |-> <<>>]
     ELSE Land(g0, player_idx, token_idx, (token.pos + dice) % TrackLen)

\* APPLY A MOVE: returns the game after the move and the list of events
apply_move(g, player_idx, token_idx) ==
  LET g0    == RecordLastMoved(g, player_idx, token_idx)
      token == g0.players[player_idx].tokens[token_idx]
      color == g0.players[player_idx].color
      dice  == g0.dice_value
  IN IF token.pos = -1
       THEN Land(g0, player_idx, token_idx, START_IDX[color])
     ELSE IF token.stretch >= 0
       THEN LET new_stretch == token.stretch + dice
            IN IF new_stretch = 5
                 THEN Finish([g0 EXCEPT !.players[player_idx].tokens[token_idx].stretch = 5],
                             player_idx, token_idx)
               ELSE IF new_stretch < 5
                 THEN [game |-> [g0 EXCEPT !.players[player_idx].tokens[token_idx].stretch
                                              = new_stretch],
                       events |-> <<>>]
               ELSE [game |-> g0, events |-> <<>>]
     ELSE LET entry == ENTRY_BEFORE_HOME[color]
              steps_to_entry == (entry - token.pos) % TrackLen
          IN IF dice <= steps_to_entry
               THEN Land(g0, player_idx, token_idx, (token.pos + dice) % TrackLen)
             ELSE LET steps_into_stretch == dice - steps_to_entry - 1
                      g1 == [g0 EXCEPT !.players[player_idx].tokens[token_idx].pos = -2,
                                       !.players[player_idx].tokens[token_idx].stretch
                                          = steps_into_stretch]
                  IN IF steps_into_stretch = 5
                       THEN Finish(g1, player_idx, token_idx)
                     ELSE [game |-> g1, events |-> <<>>]

HasEvent(evs, type) == \E k \in 1 .. Len(evs) : evs[k].type = type

---------------------------------------------------------------------------
(* RULE 8: triple-6 rule (streak tracking).  six_streak is a dict read    *)
(* with .get(player_idx, 0): a function of the seat that starts at 0      *)

\* check_triple_six that fires one six too late
check_triple_six_late(g, player_idx) ==
  LET streak  == g.six_streak[player_idx]
      history == IF g.dice_value = 6
                 THEN [g.six_streak EXCEPT ![player_idx] = streak + 1]
                 ELSE [g.six_streak EXCEPT ![player_idx] = 0]
  IN [game |-> [g EXCEPT !.six_streak = history], triple |-> history[player_idx] > 3]

check_triple_six(g, player_idx) ==
  LET streak  == g.six_streak[player_idx]
      history == IF g.dice_value = 6
                 THEN [g.six_streak EXCEPT ![player_idx] = streak + 1]
                 ELSE [g.six_streak EXCEPT ![player_idx] = 0]
  IN [game |-> [g EXCEPT !.six_streak = history], triple |-> history[player_idx] >= 3]

\* next_turn, lines 341-356: send the last moved token of the current seat back
SendLastMovedBack(g) ==
  LET cpi      == g.current_player
      last_idx == g.players[cpi].last_moved_token
      g1 == IF last_idx # NoToken
               /\ (g.players[cpi].tokens[last_idx].pos >= 0
                   \/ g.players[cpi].tokens[last_idx].stretch >= 0)
            THEN [g EXCEPT !.players[cpi].tokens[last_idx].pos = -1,
                           !.players[cpi].tokens[last_idx].stretch = -1]
            ELSE g
  IN [g1 EXCEPT !.six_streak[cpi] = 0]

\* next_turn after its guard, lines 339-376
ResolveTurn(g, rolled_six) ==
  LET g1 == [g EXCEPT !.rolled = FALSE]
      ts == check_triple_six(g1, g1.current_player)
      g2 == IF ts.triple THEN SendLastMovedBack(ts.game) ELSE ts.game
      six == IF ts.triple THEN FALSE ELSE rolled_six
  IN IF six
       THEN [game |-> [g2 EXCEPT !.extra_turn = TRUE],
             start_cpu |-> g2.players[g2.current_player].is_cpu]
     ELSE LET g3 == [g2 EXCEPT !.extra_turn = FALSE,
                               !.current_player = (g2.current_player + 1) % NumSeats]
          IN [game |-> g3, start_cpu |-> g3.players[g3.current_player].is_cpu]

\* next_turn without the game_over guard
next_turn_unguarded(g, rolled_six) == ResolveTurn(g, rolled_six)

\* TURN MANAGEMENT.  Returns the game and whether start_cpu_turn was called
next_turn(g, rolled_six) ==
  IF g.game_over THEN [game |-> g, start_cpu |-> FALSE]
  ELSE ResolveTurn(g, rolled_six)

---------------------------------------------------------------------------
(* CPU AI                                                                  *)
\* _would_block that foresees no block
_would_block_never(g, player_idx, token, dice) == FALSE

_would_block(g, player_idx, token, dice) ==
  LET color == g.players[player_idx].color
  IN IF token.pos = -1 THEN is_blocked(g, player_idx, START_IDX[color])
     ELSE IF token.stretch >= 0 THEN FALSE
     ELSE LET steps == (ENTRY_BEFORE_HOME[color] - token.pos) % TrackLen
          IN IF dice <= steps
               THEN is_blocked(g, player_idx, (token.pos + dice) % TrackLen)
             ELSE FALSE

\* priority 1 of cpu_choose_token: the move of t captures an enemy
CpuCaptures(g, player_idx, t, dice) ==
  LET color == g.players[player_idx].color
      steps == (ENTRY_BEFORE_HOME[color] - t.pos) % TrackLen
      new_pos == (t.pos + dice) % TrackLen
  IN /\ t.pos >= 0 /\ t.stretch < 0
     /\ dice <= steps
     /\ new_pos \notin SAFE_SQUARES
     /\ \E i \in Seats : /\ g.players[i].color # color
                         /\ Cardinality(TokensAt(g, i, new_pos)) = 1

\* priority 3 of cpu_choose_token: the key of max(on_board, key=progress)
progress(t, color) ==
  IF t.stretch >= 0 THEN 1000 + t.stretch
  ELSE (t.pos - START_IDX[color]) % TrackLen

\* cpu_choose_token without priority 1
cpu_choose_token_no_capture(g, player_idx) ==
  LET player  == g.players[player_idx]
      color   == player.color
      dice    == g.dice_value
      legal   == {i \in TokenIds : can_move(player.tokens[i], dice, color)}
      free    == {i \in legal : ~_would_block(g, player_idx, player.tokens[i], dice)}
      movable == IF free # {} THEN free ELSE legal
      base    == {i \in movable : player.tokens[i].pos = -1}
      on_board == {i \in movable : player.tokens[i].pos >= 0 \/ player.tokens[i].stretch >= 0}
      best    == {i \in on_board : \A j \in on_board :
                    progress(player.tokens[j], color) <= progress(player.tokens[i], color)}
  IN IF movable = {} THEN NoToken
     ELSE IF dice = 6 /\ base # {} THEN Min(base)
     ELSE IF on_board # {} THEN Min(best)
     ELSE Min(movable)

cpu_choose_token(g, player_idx) ==
  LET player  == g.players[player_idx]
      color   == player.color
      dice    == g.dice_value
      legal   == {i \in TokenIds : can_move(player.tokens[i], dice, color)}
      free    == {i \in legal : ~_would_block(g, player_idx, player.tokens[i], dice)}
      movable == IF free # {} THEN free ELSE legal
      capt    == {i \in movable : CpuCaptures(g, player_idx, player.tokens[i], dice)}
      base    == {i \in movable : player.tokens[i].pos = -1}
      on_board == {i \in movable : player.tokens[i].pos >= 0 \/ player.tokens[i].stretch >= 0}
      best    == {i \in on_board : \A j \in on_board :
                    progress(player.tokens[j], color) <= progress(player.tokens[i], color)}
  IN IF movable = {} THEN NoToken
     ELSE IF capt # {} THEN Min(capt)
     ELSE IF dice = 6 /\ base # {} THEN Min(base)
     ELSE IF on_board # {} THEN Min(best)
     ELSE Min(movable)

---------------------------------------------------------------------------
(* ROOM MANAGEMENT                                                         *)
cpu_flags(mode) ==
  CASE mode = "1v3" -> <<FALSE, TRUE, TRUE, TRUE>>
    [] mode = "2v2" -> <<FALSE, FALSE, TRUE, TRUE>>
    [] mode = "3v1" -> <<FALSE, FALSE, FALSE, TRUE>>
    [] OTHER        -> <<FALSE, FALSE, FALSE, FALSE>>

Modes == {"4p", "1v3", "2v2", "3v1"}

create_room(mode) ==
  [mode |-> mode,
   players |-> [i \in Seats |-> make_player(COLORS[i + 1], cpu_flags(mode)[i + 1])],
   current_player |-> 0,
   dice_value |-> 0,
   rolled |-> FALSE,
   game_over |-> FALSE,
   winner |-> None,
   human_slots |-> {i \in Seats : ~cpu_flags(mode)[i + 1]},
   filled_slots |-> {},
   started |-> FALSE,
   six_streak |-> [i \in Seats |-> 0],
   extra_turn |-> FALSE]

\* the sid of the client sitting on seat i
Sid(i) == COLORS[i + 1]

\* the room right after on_create_room(mode): the creator sits on the first
\* human slot, and a room with one human slot starts at once
on_create_room(mode) ==
  LET g    == create_room(mode)
      slot == Min(g.human_slots)
      g1   == [g EXCEPT !.players[slot].sid = Sid(slot),
                        !.filled_slots = @ \cup {slot}]
  IN IF Cardinality(g.human_slots) = 1 THEN [g1 EXCEPT !.started = TRUE] ELSE g1

---------------------------------------------------------------------------
(* Positions of play the room can be in.  Each is reached from a fresh    *)
(* '4p' room: the four clients play the listed tokens to the listed       *)
(* places, and the seats marked is_cpu have disconnected while it was not *)
(* their turn.  All of them are between two turns (rolled is false).      *)
AtBase(i)     == make_token(i)
OnTrack(i, p) == [id |-> i, pos |-> p, stretch |-> -1, finished |-> FALSE]
InLane(i, k)  == [id |-> i, pos |-> -2, stretch |-> k, finished |-> FALSE]
Finished(i)   == [id |-> i, pos |-> -2, stretch |-> 5, finished |-> TRUE]

AllAtBase == [i \in TokenIds |-> AtBase(i)]

Seat(i, human, toks, last) ==
  [color |-> COLORS[i + 1], is_cpu |-> ~human,
   tokens |-> toks,
   finished_count |-> Cardinality({t \in TokenIds : toks[t].finished}),
   sid |-> IF human THEN Sid(i) ELSE None,
   last_moved_token |-> last]

MidGame(seats, cur, dice, streak, extra) ==
  [mode |-> "4p", players |-> seats, current_player |-> cur, dice_value |-> dice,
   rolled |-> FALSE, game_over |-> FALSE, winner |-> None,
   human_slots |-> Seats, filled_slots |-> Seats, started |-> TRUE,
   six_streak |-> [i \in Seats |-> IF i = cur THEN streak ELSE 0],
   extra_turn |-> extra]

Tup(a, b, c, d) == [i \in TokenIds |-> <<a, b, c, d>>[i + 1]]
Four(a, b, c, d) == [i \in Seats |-> <<a, b, c, d>>[i + 1]]

\* red and blue each have three tokens home and the fourth in the lane
EndGame ==
  MidGame(Four(Seat(0, TRUE, Tup(InLane(0, 3), Finished(1), Finished(2), Finished(3)), 1),
               Seat(1, FALSE, Tup(InLane(0, 3), Finished(1), Finished(2), Finished(3)), 0),
               Seat(2, FALSE, AllAtBase, NoToken),
               Seat(3, FALSE, AllAtBase, NoToken)),
          0, 2, 0, FALSE)

\* red has rolled two sixes in this turn and is about to roll again
TwoSixes ==
  MidGame(Four(Seat(0, TRUE, Tup(OnTrack(0, 51), InLane(1, 2), OnTrack(2, 6), AtBase(3)), 2),
               Seat(1, FALSE, Tup(OnTrack(0, 10), AtBase(1), AtBase(2), AtBase(3)), 0),
               Seat(2, FALSE, AllAtBase, NoToken),
               Seat(3, FALSE, AllAtBase, NoToken)),
          0, 6, 2, TRUE)

\* red has rolled two sixes and its last token stands on its lane entry
LastToken ==
  MidGame(Four(Seat(0, TRUE, Tup(OnTrack(0, 51), Finished(1), Finished(2), Finished(3)), 0),
               Seat(1, FALSE, AllAtBase, NoToken),
               Seat(2, FALSE, AllAtBase, NoToken),
               Seat(3, FALSE, AllAtBase, NoToken)),
          0, 6, 2, TRUE)

\* blue is to roll next to a red stack on 10, a red single on 7, a yellow
\* single on the safe cell 8 and a green stack on blue's start cell 13
Crowded ==
  MidGame(Four(Seat(0, FALSE, Tup(OnTrack(0, 10), OnTrack(1, 10), OnTrack(2, 7), AtBase(3)), 2),
               Seat(1, TRUE, Tup(OnTrack(0, 5), OnTrack(1, 4), AtBase(2), AtBase(3)), 1),
               Seat(2, FALSE, Tup(OnTrack(0, 13), OnTrack(1, 13), AtBase(2), AtBase(3)), 1),
               Seat(3, FALSE, Tup(OnTrack(0, 8), AtBase(1), AtBase(2), AtBase(3)), 0)),
          1, 5, 0, FALSE)

Positions == {EndGame, TwoSixes, LastToken, Crowded}

Registry(g) == {i \in Seats : g.players[i].sid # None}

Init ==
  /\ game \in {on_create_room(m) : m \in Modes} \cup Positions
  /\ players = Registry(game)
  /\ threads = EmptyBag
  /\ events = <<>>
  /\ rolls = 0
  /\ drops = 0

---------------------------------------------------------------------------
(* Threads.  pc is the sleep the thread is in:                             *)
(*   "wake"      start_cpu_turn.run, time.sleep(delay)                     *)
(*   "choose"    start_cpu_turn.run, time.sleep(0.7) after the roll        *)
(*   "resolve"   start_cpu_turn.run, the sleep before a next_turn call     *)
(*   "roll_wait" on_roll_dice, time.sleep(0.6) before next_turn            *)
(* val is the local variable val of the thread (0 before the roll).        *)
Thread(pc, val) == [pc |-> pc, val |-> val]
One(th) == SetToBag({th})

\* start_cpu_turn: threading.Thread(target=run).start()
start_cpu_turn(thr, started) == IF started THEN thr (+) One(Thread("wake", 0)) ELSE thr

\* the token_id of a move_token request
TokenRequests == -1 .. 4

Movable(g, pidx, val) ==
  {t \in TokenIds : can_move(g.players[pidx].tokens[t], val, g.players[pidx].color)}

EndGameWith(g, color) == [g EXCEPT !.game_over = TRUE, !.winner = color]

---------------------------------------------------------------------------
(* SOCKET EVENTS                                                           *)
on_join_room ==
  LET open_slots == game.human_slots \ game.filled_slots IN
  /\ ~game.started
  /\ open_slots # {}
  /\ LET slot == Min(open_slots)
         g1 == [game EXCEPT !.players[slot].sid = Sid(slot),
                            !.filled_slots = @ \cup {slot}]
         g2 == IF g1.human_slots = g1.filled_slots THEN [g1 EXCEPT !.started = TRUE] ELSE g1
     IN /\ game' = g2
        /\ players' = players \cup {slot}
        /\ threads' = start_cpu_turn(threads,
                         g2.started /\ g2.players[g2.current_player].is_cpu)
  /\ UNCHANGED <<events, rolls, drops>>

\* on_disconnect that starts no CPU timer
on_disconnect_no_timer(pidx) ==
  /\ pidx \in players
  /\ drops < MaxDrops
  /\ LET g1 == [game EXCEPT !.players[pidx].sid = None, !.players[pidx].is_cpu = TRUE]
         turn == g1.started /\ ~g1.game_over /\ g1.current_player = pidx
     IN /\ game' = IF turn THEN [g1 EXCEPT !.rolled = FALSE] ELSE g1
        /\ threads' = threads
  /\ players' = players \ {pidx}
  /\ drops' = drops + 1
  /\ UNCHANGED <<events, rolls>>

on_disconnect(pidx) ==
  /\ pidx \in players
  /\ drops < MaxDrops
  /\ LET g1 == [game EXCEPT !.players[pidx].sid = None, !.players[pidx].is_cpu = TRUE]
         turn == g1.started /\ ~g1.game_over /\ g1.current_player = pidx
     IN /\ game' = IF turn THEN [g1 EXCEPT !.rolled = FALSE] ELSE g1
        /\ threads' = start_cpu_turn(threads, turn)
  /\ players' = players \ {pidx}
  /\ drops' = drops + 1
  /\ UNCHANGED <<events, rolls>>

\* on_roll_dice that lets any seat roll
on_roll_dice_any_seat(pidx, val) ==
  /\ pidx \in players
  /\ IF game.game_over \/ game.rolled
       THEN UNCHANGED vars
     ELSE /\ rolls < MaxRolls
          /\ game' = [game EXCEPT !.dice_value = val, !.rolled = TRUE]
          /\ threads' = IF Movable(game, pidx, val) = {}
                        THEN threads (+) One(Thread("roll_wait", val)) ELSE threads
          /\ rolls' = rolls + 1
          /\ UNCHANGED <<players, events, drops>>

\* on_roll_dice up to its time.sleep(0.6).  The returns of lines 513-515 come
\* before the first assignment
on_roll_dice(pidx, val) ==
  /\ pidx \in players
  /\ IF game.game_over \/ game.rolled
       THEN UNCHANGED vars
     ELSE IF game.current_player # pidx
       THEN UNCHANGED vars      \* emit('error', {'msg': "Not your turn!"})
     ELSE /\ rolls < MaxRolls
          /\ game' = [game EXCEPT !.dice_value = val, !.rolled = TRUE]
          /\ threads' = IF Movable(game, pidx, val) = {}
                        THEN threads (+) One(Thread("roll_wait", val)) ELSE threads
          /\ rolls' = rolls + 1
          /\ UNCHANGED <<players, events, drops>>

\* on_roll_dice that grants no bonus turn on a 6 without a move
on_roll_dice_resume_plain(val) ==
  /\ BagIn(Thread("roll_wait", val), threads)
  /\ LET nt == next_turn(game, FALSE)
     IN /\ game' = nt.game
        /\ threads' = start_cpu_turn(threads (-) One(Thread("roll_wait", val)), nt.start_cpu)
  /\ UNCHANGED <<players, events, rolls, drops>>

\* on_roll_dice after its time.sleep(0.6)
on_roll_dice_resume(val) ==
  /\ BagIn(Thread("roll_wait", val), threads)
  /\ LET nt == next_turn(game, val = 6)
     IN /\ game' = nt.game
        /\ threads' = start_cpu_turn(threads (-) One(Thread("roll_wait", val)), nt.start_cpu)
  /\ UNCHANGED <<players, events, rolls, drops>>

\* on_move_token that goes on to next_turn after a winning move
on_move_token_then_next_turn(pidx, token_id) ==
  /\ pidx \in players
  /\ ~game.game_over /\ game.rolled
  /\ game.current_player = pidx
  /\ token_id \in TokenIds
  /\ can_move(game.players[pidx].tokens[token_id], game.dice_value, game.players[pidx].color)
  /\ LET mv == apply_move(game, pidx, token_id)
         nt == next_turn(mv.game, mv.game.dice_value = 6)
     IN /\ events' = mv.events
        /\ game' = IF HasEvent(mv.events, "win")
                   THEN EndGameWith(nt.game, game.players[pidx].color)
                   ELSE nt.game
        /\ threads' = start_cpu_turn(threads, nt.start_cpu)
  /\ UNCHANGED <<players, rolls, drops>>

\* on_move_token from line 550 on: the move, the win check and next_turn
MoveAndResolve(pidx, token_id) ==
  /\ LET mv == apply_move(game, pidx, token_id)
         nt == next_turn(mv.game, mv.game.dice_value = 6)
     IN /\ events' = mv.events
        /\ IF HasEvent(mv.events, "win")
             THEN /\ game' = EndGameWith(mv.game, game.players[pidx].color)
                  /\ threads' = threads
           ELSE /\ game' = nt.game
                /\ threads' = start_cpu_turn(threads, nt.start_cpu)
  /\ UNCHANGED <<players, rolls, drops>>

\* the returns of on_move_token, lines 541-548, come before the first
\* assignment; token_id is any integer the client sends
on_move_token(pidx, token_id) ==
  /\ pidx \in players
  /\ IF game.game_over \/ ~game.rolled THEN UNCHANGED vars
     ELSE IF game.current_player # pidx THEN UNCHANGED vars
     ELSE IF ~(0 <= token_id /\ token_id <= 3) THEN UNCHANGED vars
     ELSE IF ~can_move(game.players[pidx].tokens[token_id], game.dice_value,
                       game.players[pidx].color)
       THEN UNCHANGED vars      \* emit('error', {'msg': 'Cannot move that token!'})
     ELSE MoveAndResolve(pidx, token_id)

---------------------------------------------------------------------------
(* start_cpu_turn.run                                                      *)
\* the wake-up guard fails: the thread returns
cpu_run_return ==
  /\ BagIn(Thread("wake", 0), threads)
  /\ \/ game.game_over
     \/ game.rolled
     \/ ~game.players[game.current_player].is_cpu
  /\ threads' = threads (-) One(Thread("wake", 0))
  /\ UNCHANGED <<game, players, events, rolls, drops>>

\* the wake-up guard passes: roll
cpu_run_roll(val) ==
  /\ BagIn(Thread("wake", 0), threads)
  /\ ~game.game_over /\ ~game.rolled
  /\ game.players[game.current_player].is_cpu
  /\ rolls < MaxRolls
  /\ game' = [game EXCEPT !.dice_value = val, !.rolled = TRUE]
  /\ threads' = (threads (-) One(Thread("wake", 0)))
                (+) One(Thread(IF Movable(game, game.current_player, val) = {}
                               THEN "resolve" ELSE "choose", val))
  /\ rolls' = rolls + 1
  /\ UNCHANGED <<players, events, drops>>

\* after time.sleep(0.7): choose a token and move it
cpu_run_move(val) ==
  /\ BagIn(Thread("choose", val), threads)
  /\ \E tok_id \in {cpu_choose_token(game, game.current_player)} :
       LET rest == threads (-) One(Thread("choose", val))
       IN IF tok_id = NoToken
            THEN /\ threads' = rest (+) One(Thread("resolve", val))
                 /\ UNCHANGED <<game, events>>
          ELSE \E mv \in {apply_move(game, game.current_player, tok_id)} :
                 /\ events' = mv.events
                 /\ IF HasEvent(mv.events, "win")
                      THEN /\ game' = EndGameWith(mv.game, game.players[game.current_player].color)
                           /\ threads' = rest
                    ELSE /\ game' = mv.game
                         /\ threads' = rest (+) One(Thread("resolve", val))
  /\ UNCHANGED <<players, rolls, drops>>

\* after the last sleep: next_turn(room_id, rolled_six=(val == 6))
cpu_run_next_turn(val) ==
  /\ BagIn(Thread("resolve", val), threads)
  /\ LET nt == next_turn(game, val = 6)
     IN /\ game' = nt.game
        /\ threads' = start_cpu_turn(threads (-) One(Thread("resolve", val)), nt.start_cpu)
  /\ UNCHANGED <<players, events, rolls, drops>>

---------------------------------------------------------------------------
Next ==
  \/ on_join_room
  \/ \E pidx \in Seats : on_disconnect(pidx)
  \/ \E pidx \in Seats, val \in Dice : on_roll_dice(pidx, val)
  \/ \E val \in Dice : on_roll_dice_resume(val)
  \/ \E pidx \in Seats, token_id \in TokenRequests : on_move_token(pidx, token_id)
  \/ cpu_run_return
  \/ \E val \in Dice : cpu_run_roll(val)
  \/ \E val \in Dice : cpu_run_move(val)
  \/ \E val \in Dice : cpu_run_next_turn(val)

Spec == Init /\ [][Next]_vars

---------------------------------------------------------------------------
(* The rules at work on one turn.  The boards below are positions of a     *)
(* '4p' room in which seat s is to roll: token 0 of s stands on any place  *)
(* of its route, token 1 at base, on the track or in the lane.  In layout  *)
(* "A" the seat before s has a stack 20 cells and a single token 30 cells  *)
(* after the start cell of s, and the seat after s has a token on the safe *)
(* cell 8 cells after it; in layout "B" the seat before s has a stack on   *)
(* the start cell of s.  The seat before s has just moved its token 1 onto *)
(* the stack.  Seat s is a connected client, or it has disconnected during *)
(* that last turn, and then next_turn has started its CPU timer.           *)
Route(color) == (ENTRY_BEFORE_HOME[color] - START_IDX[color]) % TrackLen

Layouts == {"A", "B"}

\* the track cell k cells after the start cell of seat s
Ahead(s, k) == (START_IDX[COLORS[s + 1]] + k) % TrackLen

\* the cell of the stack of the seat before s
StackCell(s, layout) == IF layout = "A" THEN Ahead(s, 20) ELSE Ahead(s, 0)

EnemyCells(s, layout) ==
  IF layout = "A" THEN {Ahead(s, 20), Ahead(s, 30), Ahead(s, 8)} ELSE {Ahead(s, 0)}

Places0(s, layout) ==
  {AtBase(0), Finished(0)}
    \cup {OnTrack(0, Ahead(s, k)) : k \in {j \in 0 .. Route(COLORS[s + 1]) :
                                            Ahead(s, j) \notin EnemyCells(s, layout)}}
    \cup {InLane(0, k) : k \in 0 .. 4}

Places1(s) == {AtBase(1), OnTrack(1, Ahead(s, 14)), InLane(1, 1)}

Board1(s, layout, tk0, tk1, human) ==
  LET before == (s + 3) % NumSeats
      after  == (s + 1) % NumSeats
      cell   == StackCell(s, layout)
      last   == IF tk0 = OnTrack(0, Ahead(s, 0)) THEN 3
                ELSE IF tk0 # AtBase(0) THEN 0
                ELSE IF tk1 # AtBase(1) THEN 1
                ELSE NoToken
      seats  == [i \in Seats |->
                  IF i = s THEN Seat(s, human, Tup(tk0, tk1, AtBase(2), AtBase(3)), last)
                  ELSE IF i = before
                    THEN Seat(i, TRUE,
                              Tup(OnTrack(0, cell), OnTrack(1, cell),
                                  IF layout = "A" THEN OnTrack(2, Ahead(s, 30)) ELSE AtBase(2),
                                  AtBase(3)), 1)
                  ELSE IF i = after /\ layout = "A"
                    THEN Seat(i, TRUE,
                              Tup(OnTrack(0, Ahead(s, 8)), AtBase(1), AtBase(2), AtBase(3)), 0)
                  ELSE Seat(i, TRUE, AllAtBase, NoToken)]
      \* the die of the last move of the seat before s
      dice   == IF tk0 = OnTrack(0, (cell + TrackLen - 1) % TrackLen) THEN 2 ELSE 1
  IN MidGame(seats, s, dice, 0, FALSE)

InitRules ==
  /\ \E s \in Seats, layout \in Layouts, human \in BOOLEAN :
       /\ \E tk0 \in Places0(s, layout), tk1 \in Places1(s) :
            game = Board1(s, layout, tk0, tk1, human)
       /\ threads = IF human THEN EmptyBag ELSE One(Thread("wake", 0))
  /\ players = Registry(game)
  /\ events = <<>>
  /\ rolls = 0
  /\ drops = 0

\* one turn: the roll of seat s and its move
NextRules ==
  \/ rolls = 0 /\ \E pidx \in Seats, val \in Dice : on_roll_dice(pidx, val)
  \/ \E pidx \in Seats, token_id \in TokenRequests : on_move_token(pidx, token_id)
  \/ \E val \in Dice : cpu_run_roll(val)
  \/ \E val \in Dice : cpu_run_move(val)

SpecRules == InitRules /\ [][NextRules]_vars

---------------------------------------------------------------------------
(* Vocabulary of the properties                                            *)
Tok(g, s, t) == g.players[s].tokens[t]
Board(g) == [s \in Seats |-> g.players[s].tokens]
Counts(g) == [s \in Seats |-> g.players[s].finished_count]

IsAtBase(tk)   == tk.pos = -1 /\ tk.stretch = -1 /\ ~tk.finished
IsOnTrack(tk)  == tk.pos \in 0 .. (TrackLen - 1) /\ tk.stretch = -1 /\ ~tk.finished
IsInLane(tk)   == tk.pos = -2 /\ tk.stretch \in 0 .. 4 /\ ~tk.finished
IsFinished(tk) == tk.finished /\ tk.stretch = 5

\* a step of on_move_token (a rejected request changes nothing: no step)
Moving == \E pidx \in Seats, token_id \in TokenIds : on_move_token(pidx, token_id)

\* a step in which next_turn runs: the roll of the turn is resolved
Resolving ==
  \/ \E val \in Dice : on_roll_dice_resume(val) \/ cpu_run_next_turn(val)
  \/ Moving

\* a step in which next_turn(room_id, rolled_six=True) runs
ResolvingSix ==
  \/ on_roll_dice_resume(6)
  \/ cpu_run_next_turn(6)
  \/ game.dice_value = 6 /\ Moving

\* the track cell the move of token t of seat s goes to, -1 if it goes to no track cell
TrackDest(g, s, t) ==
  LET tk == Tok(g, s, t)
      color == g.players[s].color
      steps == (ENTRY_BEFORE_HOME[color] - tk.pos) % TrackLen
  IN IF t = NoToken THEN -1
     ELSE IF IsAtBase(tk) THEN START_IDX[color]
     ELSE IF IsOnTrack(tk) /\ g.dice_value <= steps THEN (tk.pos + g.dice_value) % TrackLen
     ELSE -1

---------------------------------------------------------------------------
\* C1: GameOver is terminal.  Once game_over is true no step (roll_dice or
\* move_token request, next_turn call, pending or running CPU timer) changes
\* a token, current_player, dice_value, rolled, extra_turn, six_streak,
\* finished_count or winner, and game_over stays true.
Settled(g) ==
  <<Board(g), g.current_player, g.dice_value, g.rolled, g.extra_turn,
    g.six_streak, Counts(g), g.winner, g.game_over>>

C1_GameOverTerminal == [][game.game_over => Settled(game') = Settled(game)]_vars

\* the game is over while a CPU timer or a waiting handler has still to run
C1_Witness == game.game_over /\ threads # EmptyBag

---------------------------------------------------------------------------
\* C2: game_over is true iff some seat has finished_count = 4, and then winner
\* is that seat's color; the move that finishes the fourth token ends the game
\* at once: in that step current_player, extra_turn and six_streak do not
\* change (no bonus turn, no forfeiture) and no token is sent back to base,
\* also when the die of that move is a 6 or the third 6 in a row.
WinnerIsFull ==
  /\ game.game_over <=> \E s \in Seats : game.players[s].finished_count = 4
  /\ game.game_over =>
       /\ game.winner # None
       /\ game.players[SeatOf(game.winner)].finished_count = 4
       /\ \A s \in Seats : game.players[s].finished_count = 4 => game.winner = COLORS[s + 1]

WinPreempts ==
  (~game.game_over /\ game'.game_over) =>
     /\ game'.current_player = game.current_player
     /\ game'.extra_turn = game.extra_turn
     /\ game'.six_streak = game.six_streak
     /\ game'.dice_value = game.dice_value
     /\ \A s \in Seats, t \in TokenIds :
          Tok(game', s, t).pos = -1 => Tok(game', s, t) = Tok(game, s, t)

C2_WinEndsGame == [] WinnerIsFull /\ [][WinPreempts]_vars

\* a game won with the third 6 in a row of the winner
C2_Witness ==
  /\ game.game_over /\ game.dice_value = 6
  /\ game.six_streak[game.current_player] = 2
  /\ game.winner = COLORS[game.current_player + 1]

---------------------------------------------------------------------------
\* C3: when the third 6 in a row of a seat is resolved (die 6, six_streak 2
\* before, game not won by the move), the turn is forfeited whether or not a
\* move was made: afterwards the last-moved token of the seat, unless it is
\* Finished, is AtBase, the seat's six_streak is 0, extra_turn and rolled are
\* false and current_player is the next seat.
Forfeited(cp) ==
  /\ game'.six_streak[cp] = 0
  /\ ~game'.extra_turn
  /\ ~game'.rolled
  /\ game'.current_player = (cp + 1) % NumSeats
  /\ LET last == game'.players[cp].last_moved_token
     IN last # NoToken /\ ~Tok(game', cp, last).finished => IsAtBase(Tok(game', cp, last))

---------------------------------------------------------------------------
\* C4: once a token is Finished it never changes again: no later move, capture
\* or triple-six forfeiture alters its pos, stretch or finished field.
C4_FinishedIsImmutable ==
  [][\A s \in Seats, t \in TokenIds :
       Tok(game, s, t).finished => Tok(game', s, t) = Tok(game, s, t)]_vars

---------------------------------------------------------------------------
\* C5: the fields of every token encode exactly one location: AtBase
\* (pos = -1, stretch = -1, not finished), OnTrack (pos in 0..51, stretch = -1,
\* not finished), InLane (pos = -2, stretch in 0..4, not finished) or Finished
\* (finished, stretch = 5).
OneLocation(tk) ==
  \/ IsAtBase(tk) /\ ~IsOnTrack(tk) /\ ~IsInLane(tk) /\ ~IsFinished(tk)
  \/ ~IsAtBase(tk) /\ IsOnTrack(tk) /\ ~IsInLane(tk) /\ ~IsFinished(tk)
  \/ ~IsAtBase(tk) /\ ~IsOnTrack(tk) /\ IsInLane(tk) /\ ~IsFinished(tk)
  \/ ~IsAtBase(tk) /\ ~IsOnTrack(tk) /\ ~IsInLane(tk) /\ IsFinished(tk)

C5_OneLocation == \A s \in Seats, t \in TokenIds : OneLocation(Tok(game, s, t))

---------------------------------------------------------------------------
\* C6: finished_count of every seat equals the number of its tokens with
\* finished = true and never exceeds 4; in a step it grows by the number of
\* tokens of the seat that become Finished in that step, which is 0 or 1, and
\* no token stops being Finished.
FinishedOf(g, s) == {t \in TokenIds : Tok(g, s, t).finished}

CountMirrors ==
  \A s \in Seats : /\ game.players[s].finished_count = Cardinality(FinishedOf(game, s))
                   /\ game.players[s].finished_count <= 4

CountSteps ==
  \A s \in Seats :
    LET new == FinishedOf(game', s) \ FinishedOf(game, s)
    IN /\ Cardinality(new) <= 1
       /\ FinishedOf(game, s) \subseteq FinishedOf(game', s)
       /\ game'.players[s].finished_count = game.players[s].finished_count + Cardinality(new)

C6_FinishedCount == [] CountMirrors /\ [][CountSteps]_vars

\* a token has just come home: the event is there and the count has followed
C6_Witness ==
  /\ HasEvent(events, "home")
  /\ \E s \in Seats : game.players[s].finished_count = 4

---------------------------------------------------------------------------
\* C7: a step changes at most one token of the seats other than the moving
\* seat (current_player); that token stood alone of its seat on a non-safe
\* track cell, the moved token of the moving seat went to that cell, and the
\* token is AtBase afterwards.  So no token on a safe cell or in a lane, and no
\* token of a seat with two or more tokens on the cell, is sent to base.
Hit(g, cp) == {st \in Seats \X TokenIds : st[1] # cp /\ Tok(game', st[1], st[2]) # Tok(g, st[1], st[2])}

CaptureRule ==
  LET cp == game.current_player
      hit == Hit(game, cp)
  IN /\ Cardinality(hit) <= 1
     /\ \A st \in hit :
          LET tk == Tok(game, st[1], st[2])
          IN /\ IsOnTrack(tk)
             /\ tk.pos \notin SAFE_SQUARES
             /\ TokensAt(game, st[1], tk.pos) = {st[2]}
             /\ TrackDest(game, cp, game'.players[cp].last_moved_token) = tk.pos
             /\ IsAtBase(Tok(game', st[1], st[2]))

C7_CaptureOnlySingles == [][CaptureRule]_vars

\* a capture has just been made
C7_Witness ==
  /\ HasEvent(events, "capture")
  /\ \E s \in Seats \ {SeatOf(events[1].color)} :
       /\ game.players[s].color = events[1].victim
       /\ \E t \in TokenIds : IsAtBase(Tok(game, s, t))

---------------------------------------------------------------------------
\* C8: while two or more tokens of a seat stand on one track cell, no step
\* puts a token of another seat on that cell, and no step of another seat
\* changes one of the stacked tokens.
Stacks(g) ==
  {sc \in {<<s, Tok(g, s, t).pos>> : s \in Seats, t \in TokenIds} :
     sc[2] \in 0 .. (TrackLen - 1) /\ Cardinality(TokensAt(g, sc[1], sc[2])) >= 2}

StackRule ==
  \A sc \in Stacks(game) :
    /\ \A s \in Seats \ {sc[1]} : TokensAt(game', s, sc[2]) \subseteq TokensAt(game, s, sc[2])
    /\ game.current_player # sc[1] =>
         \A t \in TokensAt(game, sc[1], sc[2]) : Tok(game', sc[1], t) = Tok(game, sc[1], t)

C8_StackIsSafe == [][StackRule]_vars

\* a move onto a stack has just been rejected, and the stack stands
C8_Witness ==
  /\ HasEvent(events, "blocked")
  /\ \E sc \in Stacks(game) : game.players[sc[1]].color # events[1].color

---------------------------------------------------------------------------
\* C9: a move that apply_move rejects as Blocked changes no state: the tokens
\* of every seat, finished_count and last_moved_token of the moving seat are
\* after the call what they were before it.
C9_BlockedChangesNothing ==
  \A t \in TokenIds :
    LET cp == game.current_player
        mv == apply_move(game, cp, t)
    IN (/\ game.rolled /\ ~game.game_over
        /\ can_move(Tok(game, cp, t), game.dice_value, game.players[cp].color)
        /\ HasEvent(mv.events, "blocked"))
       => mv.game.players = game.players

---------------------------------------------------------------------------
\* C10: when next_turn resolves a roll of 6 that is not the third 6 in a row
\* of the seat (and the game is not over), current_player is unchanged,
\* extra_turn is true and rolled is false; also when no token could move.
C10_SixGrantsBonus ==
  [][(/\ ResolvingSix
      /\ ~game.game_over /\ ~game'.game_over
      /\ ~(game.dice_value = 6 /\ game.six_streak[game.current_player] >= 2))
     => /\ game'.current_player = game.current_player
        /\ game'.extra_turn
        /\ ~game'.rolled]_vars

\* a bonus turn granted on a 6 for which the seat had no token to move
C10_Witness ==
  /\ rolls > 0 /\ ~game.game_over
  /\ game.extra_turn /\ ~game.rolled /\ game.dice_value = 6
  /\ game.six_streak[game.current_player] = 1
  /\ Movable(game, game.current_player, 6) = {}

---------------------------------------------------------------------------
\* a step in which next_turn(room_id, rolled_six=False) runs: the thread
\* resolves a roll other than 6
ResolvingOther ==
  \/ \E val \in Dice \ {6} : on_roll_dice_resume(val) \/ cpu_run_next_turn(val)
  \/ game.dice_value # 6 /\ Moving

\* a step in which a roll for which no token could move is resolved
ResolvingNoMove ==
  \E val \in Dice \ {6} : on_roll_dice_resume(val)

TurnPassed(cp) ==
  /\ game'.current_player = (cp + 1) % NumSeats
  /\ ~game'.extra_turn
  /\ ~game'.rolled
  /\ game'.six_streak[cp] = 0

\* C11: when next_turn resolves a roll other than 6 and the game is not over,
\* current_player becomes (current_player + 1) mod 4, extra_turn and rolled
\* are false and the six_streak of the seat whose turn it was is 0; when the
\* seat had no token that could move for the roll, no token of any seat
\* changes in the resolution.
C11_OtherRollPasses ==
  [][(ResolvingOther /\ ~game.game_over /\ ~game'.game_over)
     => /\ TurnPassed(game.current_player)
        /\ ResolvingNoMove => Board(game') = Board(game)]_vars

---------------------------------------------------------------------------
\* C12: a roll_dice request from a seat that is not current_player, or that
\* arrives when rolled is true or the game is over, and a move_token request
\* that arrives before the roll, or from a seat that is not current_player, or
\* with a token id outside 0..3, or for a token that fails can_move with the
\* current die, changes no session state: tokens, current_player,
\* dice_value, rolled, extra_turn, six_streak and last_moved_token stay.
\* (Stated by contraposition: a step that changes one of them is the step of
\* no such request.)
SessionState(g) ==
  <<Board(g), g.current_player, g.dice_value, g.rolled, g.extra_turn, g.six_streak,
    [s \in Seats |-> g.players[s].last_moved_token]>>

RollOutOfOrder(pidx) ==
  game.current_player # pidx \/ game.rolled \/ game.game_over

MoveOutOfOrder(pidx, token_id) ==
  \/ ~game.rolled
  \/ game.current_player # pidx
  \/ token_id \notin 0 .. 3
  \/ ~can_move(Tok(game, pidx, token_id), game.dice_value, game.players[pidx].color)

C12_RejectedChangesNothing ==
  [][SessionState(game') # SessionState(game)
     => \A pidx \in Seats :
          /\ \A val \in Dice : ~(RollOutOfOrder(pidx) /\ on_roll_dice(pidx, val))
          /\ \A token_id \in TokenRequests :
               ~(MoveOutOfOrder(pidx, token_id) /\ on_move_token(pidx, token_id))]_vars

\* two clients are connected and the seat whose turn it is has rolled: a
\* roll_dice of either, a move_token of the other seat and a move_token for a
\* token that cannot move are all out of order here, and one token can move
C12_Witness ==
  LET cp == game.current_player
  IN /\ game.started /\ game.rolled /\ ~game.game_over /\ rolls > 0
     /\ cp \in players /\ players \ {cp} # {}
     /\ Movable(game, cp, game.dice_value) \notin {{}, TokenIds}

---------------------------------------------------------------------------
\* C13: can_move(token, die, color) is the specified rule for every token,
\* color and die 1..6, and depends on nothing but the location of the token,
\* the die and the color: Finished -> false; AtBase -> true iff die = 6;
\* InLane(i) -> true iff i + die <= 5; OnTrack at distance d from the lane
\* entry of the color -> true iff die <= d or die - d - 1 <= 5.
DistanceToEntry(color, p) == (ENTRY_BEFORE_HOME[color] - p) % TrackLen

MovableByRule(tk, die, color) ==
  IF IsFinished(tk) THEN FALSE
  ELSE IF IsAtBase(tk) THEN die = 6
  ELSE IF IsInLane(tk) THEN tk.stretch + die <= 5
  ELSE LET d == DistanceToEntry(color, tk.pos)
       IN die <= d \/ die - d - 1 <= 5

C13_CanMoveIsTheRule ==
  \A s \in Seats, t \in TokenIds, die \in Dice, id \in TokenIds :
    can_move([Tok(game, s, t) EXCEPT !.id = id], die, game.players[s].color)
      = MovableByRule(Tok(game, s, t), die, game.players[s].color)

\* a request for a lane token that would overshoot has met can_move, and so
\* has the request that then moved the other token of the seat
C13_Witness ==
  LET s == (game.current_player + NumSeats - 1) % NumSeats
  IN /\ rolls = 1 /\ ~game.rolled /\ game.dice_value = 5
     /\ IsInLane(Tok(game, s, 1))
     /\ game.players[s].last_moved_token = 0
     /\ IsInLane(Tok(game, s, 0))

---------------------------------------------------------------------------
\* C14: a token that stands on the lane-entry cell of its color counts as a
\* full lap of 52 cells away from the lane: for every die 1..6 it may move,
\* and the move leaves it on the shared track, on cell (pos + die) mod 52
\* (or where it was, when that cell is blocked), and never in the lane.
OnEntryCell(g, s, t) ==
  IsOnTrack(Tok(g, s, t)) /\ Tok(g, s, t).pos = ENTRY_BEFORE_HOME[g.players[s].color]

C14_EntryCellIsFullLap ==
  [][\A pidx \in Seats, token_id \in TokenIds :
       (/\ game.rolled /\ ~game.game_over /\ game.current_player = pidx
        /\ OnEntryCell(game, pidx, token_id)
        /\ on_move_token(pidx, token_id))
       => /\ can_move(Tok(game, pidx, token_id), game.dice_value, game.players[pidx].color)
          /\ IsOnTrack(Tok(game', pidx, token_id))
          /\ \/ HasEvent(events', "blocked")
             \/ Tok(game', pidx, token_id).pos
                  = (Tok(game, pidx, token_id).pos + game.dice_value) % TrackLen]_vars

---------------------------------------------------------------------------
\* C15: the destination of a move of a token that passes can_move.  AtBase:
\* the start cell of the seat, unless blocked.  OnTrack on cell p at distance
\* d from the lane entry: OnTrack((p + die) mod 52) when die <= d, unless
\* blocked; InLane(die - d - 1) when die > d, Finished when that index is 5.
\* InLane(i): InLane(i + die) when i + die < 5, Finished with a Home event
\* when i + die = 5.  A blocked token stays where it is.
BlockedFor(g, s, cell) == \E sc \in Stacks(g) : sc[1] # s /\ sc[2] = cell

DestinationByRule(g, s, t) ==
  LET tk    == Tok(g, s, t)
      die   == g.dice_value
      color == g.players[s].color
      d     == DistanceToEntry(color, tk.pos)
      cell  == IF IsAtBase(tk) THEN START_IDX[color] ELSE (tk.pos + die) % TrackLen
  IN IF IsInLane(tk)
       THEN IF tk.stretch + die = 5 THEN Finished(t) ELSE InLane(t, tk.stretch + die)
     ELSE IF IsOnTrack(tk) /\ die > d
       THEN IF die - d - 1 = 5 THEN Finished(t) ELSE InLane(t, die - d - 1)
     ELSE IF BlockedFor(g, s, cell) THEN tk ELSE OnTrack(t, cell)

\* a step in which seat pidx moves its token token_id: by request or by the
\* CPU thread
MovedBy(pidx, token_id) ==
  \/ on_move_token(pidx, token_id)
  \/ /\ game'.players[pidx].last_moved_token = token_id
     /\ \E val \in Dice : cpu_run_move(val)

C15_Destinations ==
  [][\A pidx \in Seats, token_id \in TokenIds :
       (/\ game.rolled /\ ~game.game_over /\ game.current_player = pidx
        /\ can_move(Tok(game, pidx, token_id), game.dice_value, game.players[pidx].color)
        /\ MovedBy(pidx, token_id))
       => /\ Tok(game', pidx, token_id) = DestinationByRule(game, pidx, token_id)
          /\ IsFinished(Tok(game', pidx, token_id)) => HasEvent(events', "home")]_vars

\* a token at distance 2 from its lane entry has moved with a 4: InLane(1)
C15_Witness ==
  LET s == (game.current_player + NumSeats - 1) % NumSeats
  IN /\ rolls = 1 /\ ~game.rolled /\ game.dice_value = 4
     /\ game.players[s].last_moved_token = 0
     /\ Tok(game, s, 0) = InLane(0, 1)

---------------------------------------------------------------------------
(* Scheduling.  Every thread of the program sleeps for a finite time: a    *)
(* CPU timer wakes up and runs to its next sleep, and so does a handler    *)
(* that waits in on_roll_dice.  Clients are under no obligation.           *)
CpuWakes == cpu_run_return \/ \E val \in Dice : cpu_run_roll(val)
CpuMoves == \E val \in Dice : cpu_run_move(val)
CpuResolves == \E val \in Dice : cpu_run_next_turn(val)
HandlerResumes == \E val \in Dice : on_roll_dice_resume(val)

FairSpec ==
  /\ Init /\ [][Next]_vars
  /\ WF_vars(CpuWakes) /\ WF_vars(CpuMoves) /\ WF_vars(CpuResolves) /\ WF_vars(HandlerResumes)

\* C16: a disconnect keeps the session and turns the seat into a CPU seat
\* (is_cpu true, sid None); when the game is started and not over and it is
\* the turn of that seat, rolled becomes false and a CPU timer is started;
\* and then the turn does not stall: as long as dice are left to roll, the
\* game ends, or the turn passes on, or the seat has a new roll resolved.
TakeoverStep ==
  \A pidx \in Seats :
    on_disconnect(pidx) =>
      /\ game'.players[pidx].is_cpu /\ game'.players[pidx].sid = None
      /\ game'.players[pidx].tokens = game.players[pidx].tokens
      /\ \A s \in Seats \ {pidx} : game'.players[s] = game.players[s]
      /\ game'.started = game.started /\ game'.game_over = game.game_over
      /\ game'.current_player = game.current_player
      /\ (game.started /\ ~game.game_over /\ game.current_player = pidx) =>
           /\ ~game'.rolled
           /\ CopiesIn(Thread("wake", 0), threads') = CopiesIn(Thread("wake", 0), threads) + 1

\* the turn of a seat has been taken over: no client sits on the seat whose
\* turn it is, the roll is cleared and a CPU timer is pending
TakenOver ==
  /\ drops > 0 /\ game.current_player \notin players
  /\ game.started /\ ~game.game_over
  /\ game.players[game.current_player].is_cpu /\ ~game.rolled
  /\ BagIn(Thread("wake", 0), threads)

\* the CPU thread has rolled for the seat whose turn it is
CpuRolled ==
  /\ drops > 0 /\ game.started /\ ~game.game_over
  /\ game.players[game.current_player].is_cpu /\ game.rolled
  /\ \E val \in Dice : BagIn(Thread("choose", val), threads) \/ BagIn(Thread("resolve", val), threads)

HumanOnTurn == ~game.players[game.current_player].is_cpu

C17_CpuTimerIsGuarded ==
  [][/\ (CpuWakes /\ (game.game_over \/ game.rolled \/ HumanOnTurn)) => game' = game
     /\ ((CpuWakes \/ CpuMoves) /\ HumanOnTurn) => game' = game]_vars

---------------------------------------------------------------------------
(* The policy of the CPU                                                   *)
\* the tokens of seat s that pass can_move with the die of the session
LegalTokens(g, s) ==
  {t \in TokenIds : can_move(Tok(g, s, t), g.dice_value, g.players[s].color)}

\* the move of token t of seat s would be rejected as blocked
MoveIsBlocked(g, s, t) == DestinationByRule(g, s, t) = Tok(g, s, t)

\* the candidates of the policy: the legal tokens whose move is not blocked
\* and, when there is none, the legal tokens
Candidates(g, s) ==
  LET free == {t \in LegalTokens(g, s) : ~MoveIsBlocked(g, s, t)}
  IN IF free # {} THEN free ELSE LegalTokens(g, s)

\* the move of token t of seat s ends on a track cell that is not safe and
\* holds exactly one token of some enemy seat
CapturesByRule(g, s, t) ==
  LET tk   == Tok(g, s, t)
      cell == (tk.pos + g.dice_value) % TrackLen
  IN /\ IsOnTrack(tk)
     /\ g.dice_value <= DistanceToEntry(g.players[s].color, tk.pos)
     /\ cell \notin SAFE_SQUARES
     /\ \E e \in Seats \ {s} : Cardinality({u \in TokenIds : Tok(g, e, u) = OnTrack(u, cell)}) = 1

ProgressByRule(g, s, t) ==
  IF IsInLane(Tok(g, s, t)) THEN 1000 + Tok(g, s, t).stretch
  ELSE (Tok(g, s, t).pos - START_IDX[g.players[s].color]) % TrackLen

\* token r is a choice of the policy for seat s
PolicyChoice(g, s, r) ==
  LET cand     == Candidates(g, s)
      capture  == {t \in cand : CapturesByRule(g, s, t)}
      at_base  == {t \in cand : IsAtBase(Tok(g, s, t))}
      on_board == {t \in cand : ~IsAtBase(Tok(g, s, t))}
  IN /\ r \in LegalTokens(g, s)
     /\ r \in cand
     /\ IF capture # {} THEN r \in capture
        ELSE IF g.dice_value = 6 /\ at_base # {} THEN r \in at_base
        ELSE /\ r \in on_board
             /\ \A t \in on_board : ProgressByRule(g, s, t) <= ProgressByRule(g, s, r)

\* C18: cpu_choose_token returns None iff no token of the seat passes
\* can_move for the die; otherwise it returns a token that passes can_move,
\* taken among the candidates in this order: a token whose move captures;
\* else, with a 6, a token at base; else the token of greatest progress,
\* a lane token (1000 + lane index) before every track token
\* ((pos - start cell) mod 52).
C18_CpuPolicy ==
  \A s \in Seats :
    game.dice_value \in Dice =>
      LET r == cpu_choose_token(game, s)
      IN /\ r = NoToken <=> LegalTokens(game, s) = {}
         /\ r # NoToken => PolicyChoice(game, s, r)

\* the CPU thread is about to choose: token 0 captures, although token 1 is
\* in the lane, has the greater progress and can move
C18_Witness ==
  LET s == game.current_player
  IN /\ game.rolled /\ game.players[s].is_cpu
     /\ BagIn(Thread("choose", game.dice_value), threads)
     /\ cpu_choose_token(game, s) = 0
     /\ CapturesByRule(game, s, 0)
     /\ IsInLane(Tok(game, s, 1)) /\ 1 \in Candidates(game, s)

\* every legal token of seat s has a blocked move, and there is one
AllBlocked(g, s) ==
  /\ LegalTokens(g, s) # {}
  /\ \A t \in LegalTokens(g, s) : MoveIsBlocked(g, s, t)

\* C19: cpu_choose_token returns a token whose move is blocked only when
\* the move of every token that passes can_move is blocked; and then the
\* move of the CPU thread yields a blocked event, it is not skipped.
C19_BlockedIsLastResort ==
  /\ [](\A s \in Seats :
          (/\ game.dice_value \in Dice
           /\ cpu_choose_token(game, s) # NoToken
           /\ MoveIsBlocked(game, s, cpu_choose_token(game, s)))
          => AllBlocked(game, s))
  /\ [][(AllBlocked(game, game.current_player) /\ CpuMoves)
          => /\ HasEvent(events', "blocked")
             /\ game'.players[game.current_player].last_moved_token
                  = cpu_choose_token(game, game.current_player)]_vars

\* the CPU thread has moved for a seat whose only legal token had a blocked
\* move: a blocked event, the token where it was, the turn to be resolved
C19_Witness ==
  /\ game.rolled /\ game.players[game.current_player].is_cpu
  /\ BagIn(Thread("resolve", game.dice_value), threads)
  /\ HasEvent(events, "blocked")
  /\ AllBlocked(game, game.current_player)

---------------------------------------------------------------------------
\* C20: dice_value is 0 in every state in which the turn has not been
\* rolled: at the start, after a turn was resolved, after a disconnect that
\* cleared a roll.
C20_DiceZeroUntilRolled == ~game.rolled => game.dice_value = 0

---------------------------------------------------------------------------
(* One turn at a time                                                      *)
\* a roll of the session is waiting to be moved or resolved by a thread
RollInFlight ==
  \E val \in Dice : \/ BagIn(Thread("roll_wait", val), threads)
                    \/ BagIn(Thread("choose", val), threads)
                    \/ BagIn(Thread("resolve", val), threads)

\* a step that rolls the die
RollStep == rolls' = rolls + 1

\* C21: each turn is one roll -> move -> resolve pipeline under every
\* interleaving of handlers, disconnects and CPU threads: no roll is made
\* while a thread still has a roll to move or to resolve, the thread that
\* resolves a roll finds the die it rolled and the roll still standing, and
\* a CPU thread moves only for the CPU seat it rolled for.
C21_OneTurnAtATime ==
  [][/\ RollStep => ~RollInFlight
     /\ \A val \in Dice :
          (cpu_run_next_turn(val) \/ on_roll_dice_resume(val))
            => (game.game_over \/ (game.rolled /\ game.dice_value = val))
     /\ (CpuMoves /\ game' # game)
          => (game.rolled /\ game.players[game.current_player].is_cpu)]_vars

---------------------------------------------------------------------------
(* The life of a token                                                     *)
\* the cells a token of the color has travelled on the track
TrackProgress(color, tk) == (tk.pos - START_IDX[color]) % TrackLen

\* from location a to location b a token of the color steps forward
ForwardStep(color, a, b) ==
  \/ IsAtBase(a) /\ IsOnTrack(b) /\ b.pos = START_IDX[color]
  \/ IsOnTrack(a) /\ IsOnTrack(b) /\ TrackProgress(color, a) < TrackProgress(color, b)
  \/ IsOnTrack(a) /\ (IsInLane(b) \/ IsFinished(b))
  \/ IsInLane(a) /\ ((IsInLane(b) /\ a.stretch < b.stretch) \/ IsFinished(b))

\* C22: a session starts with all 16 tokens at base, and every change of a
\* token is a forward step, or a capture that sends a token on the track
\* to its base, or the forfeiture of a third six that sends a token that
\* is not finished to its base.
C22_TokenLifeCycle ==
  /\ [](\A m \in Modes, s \in Seats : create_room(m).players[s].tokens = AllAtBase)
  /\ [][\A s \in Seats, t \in TokenIds :
          Tok(game', s, t) # Tok(game, s, t) =>
            \/ ForwardStep(game.players[s].color, Tok(game, s, t), Tok(game', s, t))
            \/ /\ IsOnTrack(Tok(game, s, t)) /\ IsAtBase(Tok(game', s, t))
               /\ s # game.current_player
            \/ /\ ~Tok(game, s, t).finished /\ IsAtBase(Tok(game', s, t))
               /\ Resolving /\ game.dice_value = 6]_vars

---------------------------------------------------------------------------
(* server.py.  The second server of the repository keeps a GameRoom object *)
(* per room.  Under SpecServer the variable game holds that object,        *)
(* threads holds its threading.Timer objects and cpu_turn threads, players *)
(* its sid registry.  pc of a thread:                                      *)
(*   "timer"      threading.Timer(..., next_turn) not fired yet            *)
(*   "cpu_turn"   cpu_turn, time.sleep(0.9)                                *)
(*   "cpu_rolled" cpu_turn, time.sleep(0.7) after the roll                 *)
(*   "cpu_pass"   cpu_turn, time.sleep(0.8) or time.sleep(0.3)             *)
(* val is the die the thread holds (dice, or dice_value at the move).      *)
server_START_IDX == [red |-> 0, blue |-> 13, green |-> 26, yellow |-> 39]
HOME_ENTRY == [red |-> 51, blue |-> 11, green |-> 37, yellow |-> 24]
SAFE_IDX == {0, 8, 13, 21, 26, 34, 39, 47}

Token(tid) == [id |-> tid, pos |-> -1, stretch |-> -1, finished |-> FALSE]

Player(color, is_cpu) ==
  [color |-> color, is_cpu |-> is_cpu, sid |-> None,
   tokens |-> [i \in TokenIds |-> Token(i)], finished_count |-> 0]

GameRoom(mode) ==
  [mode |-> mode,
   players |-> [i \in Seats |-> Player(COLORS[i + 1], cpu_flags(mode)[i + 1])],
   current |-> 0,
   dice_value |-> 0,
   rolled |-> FALSE,
   game_over |-> FALSE,
   winner |-> None,
   status |-> "waiting"]

\* the seat assign_human gives to a new sid, NoToken (-1) when there is none
assign_human(r) ==
  LET open == {i \in Seats : ~r.players[i].is_cpu /\ r.players[i].sid = None}
  IN IF open = {} THEN -1 ELSE Min(open)

all_humans_joined(r) == \A i \in Seats : r.players[i].is_cpu \/ r.players[i].sid # None

GameRoom_can_move(token, dice, color) ==
  IF token.finished THEN FALSE
  ELSE IF token.pos = -1 THEN dice = 6
  ELSE IF token.stretch >= 0 THEN token.stretch + dice <= 5
  ELSE LET d0 == (HOME_ENTRY[color] - token.pos) % TrackLen
           dist_to_entry == IF d0 = 0 THEN 52 ELSE d0
       IN IF dice <= dist_to_entry THEN TRUE
          ELSE dice - dist_to_entry - 1 <= 5

movable_tokens(r, player_idx, dice) ==
  {t \in TokenIds : GameRoom_can_move(r.players[player_idx].tokens[t], dice,
                                      r.players[player_idx].color)}

\* GameRoom._check_capture: the first token found on the cell, in seat and
\* token order, goes back to its base; none on a safe cell
_check_capture(r, player_idx, pos) ==
  LET hit == {<<i, t>> \in (Seats \ {player_idx}) \X TokenIds :
                /\ r.players[i].tokens[t].pos = pos
                /\ r.players[i].tokens[t].stretch < 0
                /\ ~r.players[i].tokens[t].finished}
  IN IF pos \in SAFE_IDX \/ hit = {} THEN [room |-> r, captured |-> None]
     ELSE LET i == Min({h[1] : h \in hit})
              t == Min({h[2] : h \in {x \in hit : x[1] = i}})
          IN [room |-> [r EXCEPT !.players[i].tokens[t].pos = -1,
                                 !.players[i].tokens[t].stretch = -1],
              captured |-> r.players[i].color]

\* the end of a lane move: stretch 6 or more is home
ReachHome(r, player_idx, token_id, color) ==
  IF r.players[player_idx].tokens[token_id].stretch >= 6
    THEN [room |-> [r EXCEPT !.players[player_idx].tokens[token_id].stretch = 6,
                             !.players[player_idx].tokens[token_id].finished = TRUE,
                             !.players[player_idx].finished_count = @ + 1],
          events |-> <<Ev("home", color, None)>>]
  ELSE [room |-> r, events |-> <<>>]

CaptureEvents(c, color) ==
  IF c.captured = None THEN <<>> ELSE <<Ev("capture", color, c.captured)>>

\* the win check and the last line of move_token
CheckWin(r, player_idx, color, evs) ==
  LET r1 == IF r.players[player_idx].finished_count >= 4
              THEN [r EXCEPT !.game_over = TRUE, !.winner = color, !.status = "finished"]
            ELSE r
      ev == IF r.players[player_idx].finished_count >= 4
              THEN evs \o <<Ev("win", color, None)>> ELSE evs
  IN [ok |-> TRUE, room |-> [r1 EXCEPT !.rolled = FALSE], events |-> ev]

move_token(r, player_idx, token_id) ==
  IF token_id \notin TokenIds
       \/ ~GameRoom_can_move(r.players[player_idx].tokens[token_id], r.dice_value,
                             r.players[player_idx].color)
    THEN [ok |-> FALSE, room |-> r, events |-> <<>>]
  ELSE
    LET token == r.players[player_idx].tokens[token_id]
        dice  == r.dice_value
        color == r.players[player_idx].color
        d0    == (HOME_ENTRY[color] - token.pos) % TrackLen
        dist_to_entry == IF d0 = 0 THEN 52 ELSE d0
    IN IF token.pos = -1
         THEN LET r1 == [r EXCEPT !.players[player_idx].tokens[token_id].pos = server_START_IDX[color]]
                  c  == _check_capture(r1, player_idx, server_START_IDX[color])
              IN CheckWin(c.room, player_idx, color, CaptureEvents(c, color))
       ELSE IF token.stretch >= 0
         THEN LET r1 == [r EXCEPT !.players[player_idx].tokens[token_id].stretch = @ + dice]
                  h  == ReachHome(r1, player_idx, token_id, color)
              IN CheckWin(h.room, player_idx, color, h.events)
       ELSE IF dice <= dist_to_entry
         THEN LET new_pos == (token.pos + dice) % TrackLen
                  r1 == [r EXCEPT !.players[player_idx].tokens[token_id].pos = new_pos]
                  c  == _check_capture(r1, player_idx, new_pos)
              IN CheckWin(c.room, player_idx, color, CaptureEvents(c, color))
       ELSE LET r1 == [r EXCEPT !.players[player_idx].tokens[token_id].pos = HOME_ENTRY[color],
                                !.players[player_idx].tokens[token_id].stretch = dice - dist_to_entry - 1]
                h  == ReachHome(r1, player_idx, token_id, color)
            IN CheckWin(h.room, player_idx, color, h.events)

\* GameRoom.cpu_choose_token: capture > exit home (dice=6) > most advanced
server_cpu_choose_token(r, dice) ==
  LET p       == r.players[r.current]
      color   == p.color
      movable == movable_tokens(r, r.current, dice)
      hits(t) == LET d0   == (HOME_ENTRY[color] - p.tokens[t].pos) % TrackLen
                     dist == IF d0 = 0 THEN 52 ELSE d0
                     np_  == (p.tokens[t].pos + dice) % TrackLen
                 IN /\ p.tokens[t].pos # -1 /\ p.tokens[t].stretch < 0
                    /\ dice <= dist
                    /\ np_ \notin SAFE_IDX
                    /\ \E i \in Seats \ {r.current}, u \in TokenIds :
                         /\ r.players[i].tokens[u].pos = np_
                         /\ r.players[i].tokens[u].stretch < 0
                         /\ ~r.players[i].tokens[u].finished
      capt    == {t \in movable : hits(t)}
      base    == {t \in movable : p.tokens[t].pos = -1}
      key(t)  == IF p.tokens[t].pos >= 0 THEN p.tokens[t].pos ELSE -999
      best    == {t \in movable : \A u \in movable : key(u) <= key(t)}
  IN IF movable = {} THEN NoToken
     ELSE IF capt # {} THEN Min(capt)
     ELSE IF dice = 6 /\ base # {} THEN Min(base)
     ELSE Min(best)

\* next_turn(room_id, gave_bonus), with the cpu_turn thread it may start
server_next_turn(r, thr, gave_bonus) ==
  IF r.game_over THEN [room |-> r, threads |-> thr]
  ELSE LET cur == IF gave_bonus THEN r.current ELSE (r.current + 1) % 4
       IN [room |-> [r EXCEPT !.current = cur, !.rolled = FALSE],
           threads |-> IF r.players[cur].is_cpu
                         THEN thr (+) One(Thread("cpu_turn", 0)) ELSE thr]

\* the end of on_create_room and of on_join_room
StartWhenJoined(r, thr) ==
  IF all_humans_joined(r)
    THEN [room |-> [r EXCEPT !.status = "playing"],
          threads |-> IF r.players[r.current].is_cpu
                        THEN thr (+) One(Thread("cpu_turn", 0)) ELSE thr]
  ELSE [room |-> r, threads |-> thr]

server_on_create_room(mode) ==
  LET r0 == GameRoom(mode)
      r1 == [r0 EXCEPT !.players[assign_human(r0)].sid = Sid(assign_human(r0))]
  IN StartWhenJoined(r1, EmptyBag).room

server_on_join_room ==
  /\ IF game.status = "finished" \/ assign_human(game) = -1
       THEN UNCHANGED vars         \* emit('error', ...)
     ELSE LET seat == assign_human(game)
              st   == StartWhenJoined([game EXCEPT !.players[seat].sid = Sid(seat)], threads)
          IN /\ game' = st.room
             /\ threads' = st.threads
             /\ players' = players \cup {seat}
             /\ UNCHANGED <<events, rolls, drops>>

server_on_roll_dice(pidx, val) ==
  /\ pidx \in players
  /\ IF game.game_over \/ game.rolled
       THEN UNCHANGED vars
     ELSE IF game.current # pidx \/ game.players[game.current].is_cpu
       THEN UNCHANGED vars
     ELSE /\ rolls < MaxRolls
          /\ game' = [game EXCEPT !.dice_value = val, !.rolled = TRUE]
          /\ threads' = IF movable_tokens(game, game.current, val) = {}
                          THEN threads (+) One(Thread("timer", val)) ELSE threads
          /\ rolls' = rolls + 1
          /\ UNCHANGED <<players, events, drops>>

server_on_move_token(pidx, token_id) ==
  /\ pidx \in players
  /\ IF game.game_over \/ ~game.rolled
       THEN UNCHANGED vars
     ELSE IF game.current # pidx
       THEN UNCHANGED vars
     ELSE \E mv \in {move_token(game, game.current, token_id)} :
            IF ~mv.ok THEN UNCHANGED vars
            ELSE /\ game' = mv.room
                 /\ events' = mv.events
                 /\ threads' = IF mv.room.game_over THEN threads
                               ELSE threads (+) One(Thread("timer", game.dice_value))
                 /\ UNCHANGED <<players, rolls, drops>>

server_on_disconnect(pidx) ==
  /\ pidx \in players
  /\ drops < MaxDrops
  /\ game' = [game EXCEPT !.players[pidx].sid = None]
  /\ players' = players \ {pidx}
  /\ drops' = drops + 1
  /\ UNCHANGED <<threads, events, rolls>>

\* a threading.Timer fires: next_turn(room_id, dice == 6)
timer_fires(val) ==
  /\ BagIn(Thread("timer", val), threads)
  /\ LET nt == server_next_turn(game, threads (-) One(Thread("timer", val)), val = 6)
     IN game' = nt.room /\ threads' = nt.threads
  /\ UNCHANGED <<players, events, rolls, drops>>

\* cpu_turn wakes from sleep(0.9) and rolls
cpu_turn_roll(val) ==
  /\ BagIn(Thread("cpu_turn", 0), threads)
  /\ IF game.game_over
       THEN /\ val = 1
            /\ threads' = threads (-) One(Thread("cpu_turn", 0))
            /\ UNCHANGED <<game, rolls>>
     ELSE /\ rolls < MaxRolls
          /\ game' = [game EXCEPT !.dice_value = val, !.rolled = TRUE]
          /\ threads' = (threads (-) One(Thread("cpu_turn", 0))) (+) One(Thread("cpu_rolled", val))
          /\ rolls' = rolls + 1
  /\ UNCHANGED <<players, events, drops>>

\* cpu_turn wakes from sleep(0.7): no move, or the move of the chosen token
cpu_turn_move(val) ==
  /\ BagIn(Thread("cpu_rolled", val), threads)
  /\ LET rest == threads (-) One(Thread("cpu_rolled", val))
     IN IF movable_tokens(game, game.current, val) = {}
          THEN /\ threads' = rest (+) One(Thread("cpu_pass", val))
               /\ UNCHANGED <<game, events>>
        ELSE \E mv \in {move_token(game, game.current, server_cpu_choose_token(game, val))} :
               IF ~mv.ok THEN threads' = rest /\ UNCHANGED <<game, events>>
               ELSE /\ game' = mv.room
                    /\ events' = mv.events
                    /\ threads' = IF mv.room.game_over THEN rest
                                  ELSE rest (+) One(Thread("cpu_pass", val))
  /\ UNCHANGED <<players, rolls, drops>>

\* cpu_turn wakes from its last sleep: next_turn(room_id, dice == 6)
cpu_turn_next(val) ==
  /\ BagIn(Thread("cpu_pass", val), threads)
  /\ LET nt == server_next_turn(game, threads (-) One(Thread("cpu_pass", val)), val = 6)
     IN game' = nt.room /\ threads' = nt.threads
  /\ UNCHANGED <<players, events, rolls, drops>>

\* a '4p' room in play: red is to roll, its token 0 stands on a cell of the
\* track or of the lane, every other token is at its base, and the last
\* roll of the room was a 1 of yellow
RedPlaces ==
  {[Token(0) EXCEPT !.pos = c] : c \in {10, 50}}
    \cup {[Token(0) EXCEPT !.pos = HOME_ENTRY["red"], !.stretch = k] : k \in 0 .. 5}

RoomInPlay(tk) ==
  LET r0 == GameRoom("4p")
  IN [r0 EXCEPT !.players = [i \in Seats |->
                   [r0.players[i] EXCEPT !.sid = Sid(i),
                                         !.tokens = IF i = 0 THEN [@ EXCEPT ![0] = tk] ELSE @]],
                !.dice_value = 1,
                !.status = "playing"]

InitServer ==
  /\ game \in {server_on_create_room(m) : m \in Modes} \cup {RoomInPlay(tk) : tk \in RedPlaces}
  /\ players = {i \in Seats : game.players[i].sid # None}
  /\ threads = EmptyBag
  /\ events = <<>>
  /\ rolls = 0
  /\ drops = 0

NextServer ==
  \/ server_on_join_room
  \/ \E pidx \in Seats : server_on_disconnect(pidx)
  \/ \E pidx \in Seats, val \in Dice : server_on_roll_dice(pidx, val)
  \/ \E pidx \in Seats, token_id \in TokenRequests : server_on_move_token(pidx, token_id)
  \/ \E val \in Dice : timer_fires(val)
  \/ \E val \in Dice : cpu_turn_roll(val)
  \/ \E val \in Dice : cpu_turn_move(val)
  \/ \E val \in Dice : cpu_turn_next(val)

SpecServer == InitServer /\ [][NextServer]_vars

---------------------------------------------------------------------------
\* C23: in server.py's GameRoom a token of the lane that advances by exact
\* count onto the last lane cell (index 5) becomes finished and its seat's
\* finished_count grows by one.
C23_ExactCountFinishes ==
  [][\A s \in Seats, t \in TokenIds :
       (/\ game.players[s].tokens[t].stretch >= 0
        /\ ~game.players[s].tokens[t].finished
        /\ game'.players[s].tokens[t] # game.players[s].tokens[t]
        /\ game.players[s].tokens[t].stretch + game.dice_value = 5)
       => /\ game'.players[s].tokens[t].finished
          /\ game'.players[s].finished_count = game.players[s].finished_count + 1]_vars

---------------------------------------------------------------------------
\* the number of rolled turns of the room that still wait for a thread to
\* move or to resolve them
TurnsInFlight ==
  LET waiting == {th \in BagToSet(threads) : th.pc \in {"timer", "cpu_rolled", "cpu_pass"}}
      count[S \in SUBSET waiting] ==
        IF S = {} THEN 0
        ELSE LET th == CHOOSE x \in S : TRUE
             IN CopiesIn(th, threads) + count[S \ {th}]
  IN count[waiting]

\* C24: in server.py a seat that has rolled and moved does not roll again
\* before next_turn has resolved the turn, and every rolled turn is
\* resolved exactly once: no roll is made while a rolled turn waits for
\* its next_turn, and a next_turn that runs is the only one waiting.
C24_OneResolutionPerRoll ==
  [][/\ RollStep => TurnsInFlight = 0
     /\ (\E val \in Dice : timer_fires(val) \/ cpu_turn_next(val)) => TurnsInFlight = 1]_vars

---------------------------------------------------------------------------
\* the seats that have a token on track cell c
SeatsOn(g, c) == {s \in Seats : TokensAt(g, s, c) # {}}

\* C25: in app.py tokens of two different seats never stand on the same
\* track cell, except on the safe cells 0, 8, 13, 21, 26, 34, 39, 47.
C25_NoSharedCell ==
  \A c \in (0 .. (TrackLen - 1)) \ SAFE_SQUARES : Cardinality(SeatsOn(game, c)) <= 1

\* a token has just captured on a cell that is not safe, and no token of
\* another seat is left on the cell
C25_Witness ==
  /\ HasEvent(events, "capture")
  /\ \E s \in Seats, t \in TokenIds :
       /\ game.players[s].last_moved_token = t
       /\ IsOnTrack(Tok(game, s, t)) /\ Tok(game, s, t).pos \notin SAFE_SQUARES
       /\ SeatsOn(game, Tok(game, s, t).pos) = {s}

---------------------------------------------------------------------------
\* C26: when no thread of the session is waiting to move or to resolve a
\* roll, the six_streak of every seat is 0, 1 or 2 and that of every seat
\* other than current_player is 0.
C26_StreakOfCurrentOnly ==
  threads = EmptyBag =>
    \A s \in Seats : /\ game.six_streak[s] \in 0 .. 2
                     /\ s # game.current_player => game.six_streak[s] = 0

---------------------------------------------------------------------------
\* C27: whenever the game is started and not over and the seat on turn is a
\* CPU seat, a CPU thread of the session is pending: one that will roll
\* when the turn is not rolled yet, one that will move or resolve when it
\* is.
C27_CpuTurnHasThread ==
  (game.started /\ ~game.game_over /\ game.players[game.current_player].is_cpu)
    => IF game.rolled
         THEN \E val \in Dice : \/ BagIn(Thread("choose", val), threads)
                                \/ BagIn(Thread("resolve", val), threads)
                                \/ BagIn(Thread("roll_wait", val), threads)
       ELSE BagIn(Thread("wake", 0), threads)

---------------------------------------------------------------------------
\* C28: while the room has not started no roll and no move is accepted:
\* all tokens are at base, current_player is 0, rolled is false and
\* dice_value is 0.
C28_NothingBeforeStart ==
  ~game.started =>
    /\ \A s \in Seats : game.players[s].tokens = AllAtBase
    /\ game.current_player = 0
    /\ ~game.rolled
    /\ game.dice_value = 0

---------------------------------------------------------------------------
\* the cells between the start cell of a color and its lane-entry cell
RouteLength(color) == (ENTRY_BEFORE_HOME[color] - START_IDX[color]) % TrackLen

\* C29: a token on the track never travels past the lane-entry cell of its
\* color: (pos - START_IDX[color]) mod 52 is at most
\* (ENTRY_BEFORE_HOME[color] - START_IDX[color]) mod 52.
C29_NoSecondLap ==
  \A s \in Seats, t \in TokenIds :
    IsOnTrack(Tok(game, s, t)) =>
      TrackProgress(game.players[s].color, Tok(game, s, t)) <= RouteLength(game.players[s].color)

\* a token has moved with a 3 onto the lane-entry cell of its color, the
\* last cell of its lap
C29_Witness ==
  LET s == (game.current_player + NumSeats - 1) % NumSeats
  IN /\ rolls = 1 /\ ~game.rolled /\ game.dice_value = 3
     /\ game.players[s].last_moved_token = 0
     /\ Tok(game, s, 0) = OnTrack(0, ENTRY_BEFORE_HOME[game.players[s].color])

====
